---- MODULE Spec2Model ----
(***************************************************************************)
(* Word Cloud Generator (src/app.py): one Streamlit script that is         *)
(* re-executed top to bottom on every user interaction.  The model follows *)
(* one browser session: StartRun reads the widgets, the following actions  *)
(* are the statements of the script in order, and an exception that no     *)
(* statement of the script catches ends the run where it is raised.        *)
(*                                                                         *)
(* Texts are sequences of one-character strings.  The word-cloud engine,   *)
(* the PDF extractor, PIL and pandas are libraries: they are modelled by   *)
(* the contract the script relies on at each call site.                    *)
(***************************************************************************)
EXTENDS Naturals, Sequences, FiniteSets, TLC

VARIABLES
    ui,                \* widget values read by this run (lines 22-44, 65, 71, 75, 88)
    fs,                \* built-in shapes whose masks/<shape>.png exists
    pc,                \* position of the run in the script
    text_input,        \* line 67
    mask,              \* line 90
    wc,                \* line 93: the WordCloud object after generate()
    png,               \* line 111: the image written to the PNG buffer
    normalized_freqs,  \* line 123
    raw_counts,        \* line 124
    freq_data,         \* lines 127, 137
    csv,               \* line 148
    chart,             \* lines 161-168: the bars, top to bottom
    shown,             \* elements the run has put on the page, in order
    outcome,           \* "running", "ok", or the exception that ended the run
    prev               \* a finished earlier run of the session: its widgets and its outputs

vars == <<ui, fs, pc, text_input, mask, wc, png, normalized_freqs, raw_counts,
          freq_data, csv, chart, shown, outcome, prev>>

(***************************************************************************)
(* Bounds of the model                                                     *)
(***************************************************************************)
MaxSeed == 2          \* layouts the engine's unseeded random state can draw
MaxRetained == 11     \* words in the engine's mapping, frequency reporter alone
MaxCount == 2         \* occurrences of one word, frequency reporter alone

(***************************************************************************)
(* Program constants                                                       *)
(***************************************************************************)
TopN == 10
MinWidth == 400
MaxWidth == 1200
MinHeight == 300
MaxHeight == 800
max_words == 200

(***************************************************************************)
(* Strings                                                                 *)
(***************************************************************************)
Whitespace == {" ", "\n", "\t"}
Punctuation == {",", ".", "!"}

RECURSIVE LStrip(_)
LStrip(s) ==
    IF s = <<>> THEN <<>>
    ELSE IF Head(s) \in Whitespace THEN LStrip(Tail(s)) ELSE s

RECURSIVE RStrip(_)
RStrip(s) ==
    IF s = <<>> THEN <<>>
    ELSE IF s[Len(s)] \in Whitespace THEN RStrip(SubSeq(s, 1, Len(s) - 1)) ELSE s

\* str.strip() of line 88
Strip(s) == RStrip(LStrip(s))

RECURSIVE Concat(_)
\* "".join(...) of line 79
Concat(pages) ==
    IF pages = <<>> THEN <<>> ELSE Head(pages) \o Concat(Tail(pages))

(***************************************************************************)
(* The word-cloud engine, as the script uses it                            *)
(***************************************************************************)
\* a few of the engine's stop words
Stopwords == {<<"t", "h", "e">>, <<"a">>}

RECURSIVE Tokens(_, _)
\* the engine's word pattern: maximal runs of word characters
Tokens(s, cur) ==
    IF s = <<>> THEN (IF cur = <<>> THEN <<>> ELSE <<cur>>)
    ELSE IF Head(s) \in Whitespace \cup Punctuation
         THEN (IF cur = <<>> THEN <<>> ELSE <<cur>>) \o Tokens(Tail(s), <<>>)
         ELSE Tokens(Tail(s), Append(cur, Head(s)))

\* one more occurrence of w in a word -> count mapping kept in insertion order
AddWord(freqs, w) ==
    IF \E i \in 1..Len(freqs) : freqs[i].word = w
    THEN [i \in 1..Len(freqs) |->
            IF freqs[i].word = w
            THEN [freqs[i] EXCEPT !.count = @ + 1] ELSE freqs[i]]
    ELSE Append(freqs, [word |-> w, count |-> 1])

RECURSIVE CountWords(_, _)
CountWords(words, freqs) ==
    IF words = <<>> THEN freqs
    ELSE CountWords(Tail(words),
                    IF Head(words) \in Stopwords THEN freqs
                    ELSE AddWord(freqs, Head(words)))

\* wc.process_text(text): word -> occurrences, stop words left out (the engine's
\* case folding, plural merging and collocations play no part in the texts used)
process_text(text) == CountWords(Tokens(text, <<>>), <<>>)

RECURSIVE InsertDesc(_, _, _)
\* r goes behind every element whose key is at least its own
InsertDesc(sorted, r, f) ==
    IF sorted = <<>> THEN <<r>>
    ELSE IF Head(sorted)[f] >= r[f]
         THEN <<Head(sorted)>> \o InsertDesc(Tail(sorted), r, f)
         ELSE <<r>> \o sorted

RECURSIVE InsertAsc(_, _, _)
InsertAsc(sorted, r, f) ==
    IF sorted = <<>> THEN <<r>>
    ELSE IF Head(sorted)[f] <= r[f]
         THEN <<Head(sorted)>> \o InsertAsc(Tail(sorted), r, f)
         ELSE <<r>> \o sorted

RECURSIVE SortDescFrom(_, _, _)
SortDescFrom(seq, f, acc) ==
    IF seq = <<>> THEN acc
    ELSE SortDescFrom(Tail(seq), f, InsertDesc(acc, Head(seq), f))

RECURSIVE SortAscFrom(_, _, _)
SortAscFrom(seq, f, acc) ==
    IF seq = <<>> THEN acc
    ELSE SortAscFrom(Tail(seq), f, InsertAsc(acc, Head(seq), f))

\* sorted(..., key=..., reverse=True): descending, equal keys keep their order
SortDesc(seq, f) == SortDescFrom(seq, f, <<>>)

Min(a, b) == IF a <= b THEN a ELSE b

RECURSIVE GCD(_, _)
GCD(a, b) == IF b = 0 THEN a ELSE GCD(b, a % b)

\* the engine's words_: the max_words most frequent words, most frequent first,
\* each with its count divided by the largest count (the fraction num/den)
NormalizedWords(frequencies) ==
    LET s == SortDesc(frequencies, "count")
        t == SubSeq(s, 1, Min(Len(s), max_words))
        m == t[1].count
    IN  [i \in 1..Len(t) |->
            [word |-> t[i].word,
             num  |-> t[i].count \div GCD(t[i].count, m),
             den  |-> m \div GCD(t[i].count, m)]]

(***************************************************************************)
(* Frequency reporter, lines 123-137                                       *)
(***************************************************************************)
\* get() with 1 for a missing word
GetDefaultOne(d, w, default) ==
    IF \E i \in 1..Len(d) : d[i].word = w
    THEN d[CHOOSE i \in 1..Len(d) : d[i].word = w].count
    ELSE 1

\* dict.get(word, default) of line 130
Get(d, w, default) ==
    IF \E i \in 1..Len(d) : d[i].word = w
    THEN d[CHOOSE i \in 1..Len(d) : d[i].word = w].count
    ELSE default

\* round(freq * 100, 2) of line 131, in hundredths of a percent
RoundPct(num, den) == (2 * num * 10000 + den) \div (2 * den)

\* the list comprehension of lines 127-134
FreqRows(nf, rc) ==
    [i \in 1..Len(nf) |->
        [Word     |-> nf[i].word,
         RawCount |-> Get(rc, nf[i].word, 0),
         NormPct  |-> RoundPct(nf[i].num, nf[i].den)]]

\* the sort without reverse=True
SortedAscending(rows) == SortAscFrom(rows, "RawCount", <<>>)

\* sorted(freq_data, key=lambda x: x["Raw Count"], reverse=True) of line 137
SortedByRawCount(rows) == SortDesc(rows, "RawCount")

\* the slice [:10] of line 137
Top10(rows) == SubSeq(rows, 1, Min(Len(rows), TopN))

(***************************************************************************)
(* CSV export, lines 147-148                                               *)
(***************************************************************************)
DigitChars == <<"0", "1", "2", "3", "4", "5", "6", "7", "8", "9">>

RECURSIVE IntToStr(_)
\* str(int)
IntToStr(n) ==
    IF n < 10 THEN <<DigitChars[n + 1]>>
    ELSE IntToStr(n \div 10) \o <<DigitChars[(n % 10) + 1]>>

\* repr(float) of a value with at most two decimals, given in hundredths:
\* 10000 is 100.0, 3333 is 33.33, 5000 is 50.0
FloatRepr(h) ==
    IntToStr(h \div 100) \o <<".">> \o
    (IF h % 10 = 0 THEN <<DigitChars[((h % 100) \div 10) + 1]>>
     ELSE <<DigitChars[((h % 100) \div 10) + 1], DigitChars[(h % 10) + 1]>>)

\* the keys of the row dict, lines 129-131, each column name one symbol
Columns == <<"Word", "Raw Count", "Normalized Frequency (%)">>

CsvLine(fields) ==
    fields[1] \o <<",">> \o fields[2] \o <<",">> \o fields[3] \o <<"\n">>

RECURSIVE CsvRows(_)
CsvRows(rows) ==
    IF rows = <<>> THEN <<>>
    ELSE CsvLine(<<Head(rows).Word, IntToStr(Head(rows).RawCount),
                   FloatRepr(Head(rows).NormPct)>>) \o CsvRows(Tail(rows))

RECURSIVE CsvRowsIndexed(_, _)
CsvRowsIndexed(rows, k) ==
    IF rows = <<>> THEN <<>>
    ELSE IntToStr(k) \o <<",">> \o
         CsvLine(<<Head(rows).Word, IntToStr(Head(rows).RawCount),
                   FloatRepr(Head(rows).NormPct)>>) \o CsvRowsIndexed(Tail(rows), k + 1)

\* to_csv() with the index column left in
ToCsvWithIndex(rows) ==
    <<",">> \o CsvLine(<<<<Columns[1]>>, <<Columns[2]>>, <<Columns[3]>>>>) \o
    CsvRowsIndexed(rows, 0)

\* pd.DataFrame(freq_data).to_csv(index=False)
ToCsv(rows) ==
    CsvLine(<<<<Columns[1]>>, <<Columns[2]>>, <<Columns[3]>>>>) \o CsvRows(rows)

\* barh(df_bar["Word"], df_bar["Raw Count"]) with the y axis inverted: bars top to bottom
Bars(rows) == [i \in 1..Len(rows) |-> [Word |-> rows[i].Word, RawCount |-> rows[i].RawCount]]

(***************************************************************************)
(* What the user can put into the widgets                                  *)
(***************************************************************************)
RECURSIVE Spaced(_)
Spaced(letters) ==
    IF letters = <<>> THEN <<>>
    ELSE IF Len(letters) = 1 THEN <<Head(letters)>>
    ELSE <<Head(letters), " ">> \o Spaced(Tail(letters))

TextEmpty == <<>>
TextBlank == <<" ", "\n">>
TextCatDog == <<"c", "a", "t", " ", "c", "a", "t", " ", "d", "o", "g">>
TextNoWords == <<"t", "h", "e", " ", "!">>
\* twelve distinct words, two of them twice
TextMany == Spaced(<<"k", "b", "c", "d", "e", "f", "g", "h", "j", "l", "m", "n", "k", "d">>)

TypedTexts == {TextEmpty, TextBlank, TextCatDog, TextNoWords, TextMany}

NoPdf == [kind |-> "none", pages |-> <<>>]
PdfFiles ==
    {[kind |-> "invalid", pages |-> <<>>],
     [kind |-> "valid", pages |-> <<TextBlank>>],
     [kind |-> "valid", pages |-> <<SubSeq(TextCatDog, 1, 8), SubSeq(TextCatDog, 9, 11)>>]}

Shapes == {"None", "Circle", "Heart"}
BuiltinShapes == Shapes \ {"None"}

NoImage == [name |-> "none", mode |-> "-", w |-> 0, h |-> 0]
\* the image stored in masks/<shape>.png
BuiltinImage(shape) == [name |-> shape, mode |-> "RGB", w |-> 600, h |-> 600]
NoUpload == [kind |-> "none", img |-> NoImage]
MaskUploads ==
    {NoUpload,
     [kind |-> "image", img |-> [name |-> "upload", mode |-> "RGBA", w |-> 500, h |-> 500]],
     [kind |-> "corrupt", img |-> NoImage]}

Widths == {MinWidth, MaxWidth}
Heights == {MinHeight, MaxHeight}

\* the text area exists in Text mode only, the PDF uploader in PDF Upload mode only
Sources ==
    {[input_method |-> "Text", typed |-> t, uploaded_pdf |-> NoPdf] : t \in TypedTexts}
    \cup
    {[input_method |-> "PDF Upload", typed |-> <<>>, uploaded_pdf |-> f] :
        f \in PdfFiles \cup {NoPdf}}

Widgets(srcs, uploads, shapes, widths, heights) ==
    {[input_method |-> s.input_method, typed |-> s.typed, uploaded_pdf |-> s.uploaded_pdf,
      button |-> b, shape |-> sh, uploaded_mask |-> u, width |-> w, height |-> h] :
        s \in srcs, b \in BOOLEAN, sh \in shapes, u \in uploads,
        w \in widths, h \in heights}

Inputs == Widgets(Sources, MaskUploads, Shapes, Widths, Heights)

\* the widget values followed across the runs of one session
SessionInputs ==
    Widgets({s \in Sources : \/ s.typed \in {TextCatDog, TextNoWords}
                             \/ s.uploaded_pdf.kind = "invalid"
                             \/ s.input_method = "PDF Upload" /\ s.uploaded_pdf.kind = "none"
                             \/ s.input_method = "Text" /\ s.typed = TextEmpty},
            {u \in MaskUploads : u.kind # "corrupt"}, {"None", "Heart"},
            {MinWidth}, Heights)

NoUi == [input_method |-> "Text", typed |-> <<>>, uploaded_pdf |-> NoPdf,
         button |-> FALSE, shape |-> "None", uploaded_mask |-> NoUpload,
         width |-> MinWidth, height |-> MinHeight]

NoWc == [words_ |-> <<>>, w |-> 0, h |-> 0, layout |-> 0]
NoPicture == [w |-> 0, h |-> 0, layout |-> 0, words |-> <<>>]

(***************************************************************************)
(* The script                                                              *)
(***************************************************************************)
Outputs == {"cloud", "png_download", "table", "csv_download", "chart"}

\* what the run has produced so far
Output ==
    [shown |-> shown, outcome |-> outcome, wc |-> wc, png |-> png,
     freq_data |-> freq_data, csv |-> csv, chart |-> chart]

\* text_input left as the previous run had it
KeptText == text_input

\* text_input = "" of line 67
InitialText == <<>>

\* an exception no statement catches ends the run; the framework shows it on the page
Raise(exc) ==
    /\ pc' = "done"
    /\ outcome' = exc
    /\ shown' = Append(shown, "exception")

\* lines 12-44, 65-67: the script starts over, reads the sidebar widgets and
\* gives text_input its default
StartRunFrom(S, track) ==
    /\ pc \in {"idle", "done"}
    /\ \E in \in S : ui' = in
    /\ IF track /\ pc = "done"
       THEN \E keep \in BOOLEAN :
                prev' = IF keep THEN prev ELSE <<[in |-> ui, out |-> Output]>>
       ELSE prev' = prev
    /\ pc' = "acquire"
    /\ shown' = <<>>
    /\ outcome' = "running"
    /\ text_input' = InitialText
    /\ mask' = NoImage
    /\ wc' = NoWc
    /\ png' = NoPicture
    /\ normalized_freqs' = <<>>
    /\ raw_counts' = <<>>
    /\ freq_data' = <<>>
    /\ csv' = <<>>
    /\ chart' = <<>>
    /\ UNCHANGED fs

StartRun == StartRunFrom(Inputs, FALSE)

StartSessionRun == StartRunFrom(SessionInputs, TRUE)

\* an extractor that opens anything
OpenPdfLenient(f) == [ok |-> TRUE, pages |-> f.pages]

\* fitz.open(stream=..., filetype="pdf") of line 78
OpenPdf(f) == [ok |-> f.kind = "valid", pages |-> f.pages]

\* lines 70-82
AcquireText ==
    /\ pc = "acquire"
    /\ \/ /\ ui.input_method = "Text"
          /\ text_input' = ui.typed
          /\ shown' = Append(shown, "text_area")
          /\ pc' = "guard"
          /\ UNCHANGED outcome
       \/ /\ ui.input_method = "PDF Upload"
          /\ ui.uploaded_pdf.kind = "none"
          /\ text_input' = text_input
          /\ shown' = Append(shown, "pdf_uploader")
          /\ pc' = "guard"
          /\ UNCHANGED outcome
       \/ /\ ui.input_method = "PDF Upload"
          /\ ui.uploaded_pdf.kind # "none"
          /\ OpenPdf(ui.uploaded_pdf).ok
          /\ text_input' = Concat(OpenPdf(ui.uploaded_pdf).pages)
          /\ shown' = shown \o <<"pdf_uploader", "success", "extracted_text">>
          /\ pc' = "guard"
          /\ UNCHANGED outcome
       \/ /\ ui.input_method = "PDF Upload"
          /\ ui.uploaded_pdf.kind # "none"
          /\ ~OpenPdf(ui.uploaded_pdf).ok
          /\ text_input' = text_input
          /\ pc' = "done"
          /\ outcome' = "FileDataError"
          /\ shown' = shown \o <<"pdf_uploader", "exception">>
    /\ UNCHANGED <<ui, fs, mask, wc, png, normalized_freqs, raw_counts, freq_data,
                   csv, chart, prev>>

\* the guard without the strip()
GuardNoStrip(button, text) == button /\ text # <<>>

\* st.button("Generate Word Cloud") and text_input.strip(), line 88
GenerateGuard(button, text) == button /\ Strip(text) # <<>>

\* line 88
Guard ==
    /\ pc = "guard"
    /\ shown' = Append(shown, "button")
    /\ IF GenerateGuard(ui.button, text_input)
       THEN pc' = "load_mask" /\ UNCHANGED outcome
       ELSE pc' = "done" /\ outcome' = "ok"
    /\ UNCHANGED <<ui, fs, text_input, mask, wc, png, normalized_freqs, raw_counts,
                   freq_data, csv, chart, prev>>

\* Image.convert("L")
ConvertL(img) == [img EXCEPT !.mode = "L"]

\* load_mask with the two tests in the other order
LoadMaskShapeFirst(upload, shape, files) ==
    IF shape # "None"
    THEN (IF shape \in files THEN [exc |-> "", mask |-> BuiltinImage(shape)]
          ELSE [exc |-> "FileNotFoundError", mask |-> NoImage])
    ELSE IF upload.kind # "none"
    THEN (IF upload.kind = "image" THEN [exc |-> "", mask |-> ConvertL(upload.img)]
          ELSE [exc |-> "UnidentifiedImageError", mask |-> NoImage])
    ELSE [exc |-> "", mask |-> NoImage]

\* load_mask that falls back to no mask when the shape's file is missing
LoadMaskOrNone(upload, shape, files) ==
    IF upload.kind # "none"
    THEN (IF upload.kind = "image" THEN [exc |-> "", mask |-> ConvertL(upload.img)]
          ELSE [exc |-> "UnidentifiedImageError", mask |-> NoImage])
    ELSE IF shape # "None" /\ shape \in files
    THEN [exc |-> "", mask |-> BuiltinImage(shape)]
    ELSE [exc |-> "", mask |-> NoImage]

\* load_mask(), lines 50-58: the mask, or the exception Image.open raises
load_mask(upload, shape, files) ==
    IF upload.kind # "none"
    THEN (IF upload.kind = "image" THEN [exc |-> "", mask |-> ConvertL(upload.img)]
          ELSE [exc |-> "UnidentifiedImageError", mask |-> NoImage])
    ELSE IF shape # "None"
    THEN (IF shape \in files THEN [exc |-> "", mask |-> BuiltinImage(shape)]
          ELSE [exc |-> "FileNotFoundError", mask |-> NoImage])
    ELSE [exc |-> "", mask |-> NoImage]

\* line 90
LoadMask ==
    /\ pc = "load_mask"
    /\ LET r == load_mask(ui.uploaded_mask, ui.shape, fs)
       IN  IF r.exc = ""
           THEN mask' = r.mask /\ pc' = "render" /\ UNCHANGED <<shown, outcome>>
           ELSE mask' = mask /\ Raise(r.exc)
    /\ UNCHANGED <<ui, fs, text_input, wc, png, normalized_freqs, raw_counts,
                   freq_data, csv, chart, prev>>

\* the engine lays the cloud out on the mask's grid when it is given a mask,
\* on a width x height canvas otherwise
CloudSize(width, height, m) ==
    IF m = NoImage THEN [w |-> width, h |-> height] ELSE [w |-> m.w, h |-> m.h]

\* WordCloud(width, height, ..., mask).generate(text_input), lines 93-101; no
\* random_state is passed, so the layout is drawn afresh
Render ==
    /\ pc = "render"
    /\ IF process_text(text_input) = <<>>
       THEN wc' = wc /\ Raise("ValueError")
       ELSE /\ \E seed \in 1..MaxSeed :
                 wc' = [words_ |-> NormalizedWords(process_text(text_input)),
                        w |-> CloudSize(ui.width, ui.height, mask).w,
                        h |-> CloudSize(ui.width, ui.height, mask).h,
                        layout |-> seed]
            /\ pc' = "show_image"
            /\ UNCHANGED <<shown, outcome>>
    /\ UNCHANGED <<ui, fs, text_input, mask, png, normalized_freqs, raw_counts,
                   freq_data, csv, chart, prev>>

\* wc.to_image(): the picture of the layout
to_image(cloud) ==
    [w |-> cloud.w, h |-> cloud.h, layout |-> cloud.layout, words |-> cloud.words_]

\* lines 104-107
ShowImage ==
    /\ pc = "show_image"
    /\ shown' = Append(shown, "cloud")
    /\ pc' = "offer_png"
    /\ UNCHANGED <<ui, fs, text_input, mask, wc, png, normalized_freqs, raw_counts,
                   freq_data, csv, chart, outcome, prev>>

\* lines 110-117
OfferPng ==
    /\ pc = "offer_png"
    /\ png' = to_image(wc)
    /\ shown' = Append(shown, "png_download")
    /\ pc' = "read_stats"
    /\ UNCHANGED <<ui, fs, text_input, mask, wc, normalized_freqs, raw_counts,
                   freq_data, csv, chart, outcome, prev>>

\* lines 120-124
ReadStats ==
    /\ pc = "read_stats"
    /\ normalized_freqs' = wc.words_
    /\ raw_counts' = process_text(text_input)
    /\ shown' = Append(shown, "subheader")
    /\ pc' = "build_freq"
    /\ UNCHANGED <<ui, fs, text_input, mask, wc, png, freq_data, csv, chart,
                   outcome, prev>>

\* lines 127-137
BuildFreq ==
    /\ pc = "build_freq"
    /\ freq_data' = Top10(SortedByRawCount(FreqRows(normalized_freqs, raw_counts)))
    /\ pc' = "show_table"
    /\ UNCHANGED <<ui, fs, text_input, mask, wc, png, normalized_freqs, raw_counts,
                   csv, chart, shown, outcome, prev>>

\* lines 140-144
ShowTable ==
    /\ pc = "show_table"
    /\ shown' = Append(shown, "table")
    /\ pc' = "export_csv"
    /\ UNCHANGED <<ui, fs, text_input, mask, wc, png, normalized_freqs, raw_counts,
                   freq_data, csv, chart, outcome, prev>>

\* lines 147-154
ExportCsv ==
    /\ pc = "export_csv"
    /\ csv' = ToCsv(freq_data)
    /\ shown' = Append(shown, "csv_download")
    /\ pc' = "show_chart"
    /\ UNCHANGED <<ui, fs, text_input, mask, wc, png, normalized_freqs, raw_counts,
                   freq_data, chart, outcome, prev>>

\* lines 156-172
ShowChart ==
    /\ pc = "show_chart"
    /\ chart' = Bars(freq_data)
    /\ shown' = Append(shown, "chart")
    /\ pc' = "done"
    /\ outcome' = "ok"
    /\ UNCHANGED <<ui, fs, text_input, mask, wc, png, normalized_freqs, raw_counts,
                   freq_data, csv, prev>>

Blank ==
    /\ ui = NoUi
    /\ text_input = <<>>
    /\ mask = NoImage
    /\ wc = NoWc
    /\ png = NoPicture
    /\ csv = <<>>
    /\ chart = <<>>
    /\ shown = <<>>
    /\ prev = <<>>

Init ==
    /\ Blank
    /\ fs \in SUBSET BuiltinShapes
    /\ pc = "idle"
    /\ outcome = "ok"
    /\ normalized_freqs = <<>>
    /\ raw_counts = <<>>
    /\ freq_data = <<>>

Generation ==
    \/ LoadMask
    \/ Render
    \/ ShowImage
    \/ OfferPng
    \/ ReadStats
    \/ BuildFreq
    \/ ShowTable
    \/ ExportCsv
    \/ ShowChart

Next ==
    \/ StartRun
    \/ AcquireText
    \/ Guard
    \/ Generation

Spec == Init /\ [][Next]_vars

NextSession ==
    \/ StartSessionRun
    \/ AcquireText
    \/ Guard
    \/ Generation

\* one session, its runs compared with an earlier run of the same session
SpecSession == Init /\ [][NextSession]_vars

(***************************************************************************)
(* The frequency reporter alone, lines 127-172, on every engine mapping of *)
(* up to MaxRetained words and the raw-count mappings that differ from it  *)
(* in at most one word                                                     *)
(***************************************************************************)
Word(i) == <<"w">> \o IntToStr(i)

RECURSIVE NonIncreasing(_, _)
\* the count sequences of length n, each count in 1..top, largest first
NonIncreasing(n, top) ==
    IF n = 0 THEN {<<>>}
    ELSE UNION {{<<c>> \o t : t \in NonIncreasing(n - 1, c)} : c \in 1..top}

RECURSIVE DropZero(_)
DropZero(freqs) ==
    IF freqs = <<>> THEN <<>>
    ELSE IF Head(freqs).count = 0 THEN DropZero(Tail(freqs))
    ELSE <<Head(freqs)>> \o DropZero(Tail(freqs))

\* the engine counted e[i] occurrences of word i
EngineCounts(e) == [i \in 1..Len(e) |-> [word |-> Word(i), count |-> e[i]]]

\* the raw counts are the engine's but for word t (no word when t = 0), whose raw
\* count is v, 0 standing for a word the raw-count mapping does not hold
TamperedCounts(e, t, v) ==
    DropZero([i \in 1..Len(e) |->
                [word |-> Word(i), count |-> IF i = t THEN v ELSE e[i]]])

InitFreq ==
    /\ Blank
    /\ fs = BuiltinShapes
    /\ pc = "build_freq"
    /\ outcome = "running"
    /\ freq_data = <<>>
    /\ \E n \in 1..MaxRetained :
          \E e \in NonIncreasing(n, MaxCount) :
             /\ normalized_freqs = NormalizedWords(EngineCounts(e))
             /\ \E t \in 0..n :
                   \E v \in 0..MaxCount :
                      raw_counts = TamperedCounts(e, t, v)

NextFreq ==
    \/ BuildFreq
    \/ ShowTable
    \/ ExportCsv
    \/ ShowChart

SpecFreq == InitFreq /\ [][NextFreq]_vars

(***************************************************************************)
(* Vocabulary of the properties                                            *)
(***************************************************************************)
Has(x) == \E i \in 1..Len(shown) : shown[i] = x

NoOutputShown == \A o \in Outputs : ~Has(o)

AllWhitespace(s) == \A i \in 1..Len(s) : s[i] \in Whitespace

GenerationPcs ==
    {"load_mask", "render", "show_image", "offer_png", "read_stats", "build_freq",
     "show_table", "export_csv", "show_chart"}

\* the run has read its widgets and gone through text acquisition
Acquired == pc \notin {"idle", "acquire"}

\* line 88 let the run into the generation block
GuardPassed == Acquired /\ Has("button") /\ ui.button /\ ~AllWhitespace(text_input)

NothingGenerated ==
    /\ NoOutputShown
    /\ wc = NoWc
    /\ png = NoPicture
    /\ freq_data = <<>>
    /\ csv = <<>>
    /\ chart = <<>>

\* C1: once the text is acquired and is empty or whitespace-only, the run ends
\* normally at the guard with no output and no error, button pressed or not; and a
\* run is in the generation block, or has produced anything, only if the button was
\* pressed in it and its text has a character that is not whitespace.
C1_EmptyTextGeneratesNothing ==
    /\ (pc = "done" /\ Has("button") /\ AllWhitespace(text_input))
          => (outcome = "ok" /\ ~Has("exception") /\ NothingGenerated)
    /\ (pc \in GenerationPcs \/ ~NothingGenerated)
          => (ui.button /\ ~AllWhitespace(text_input))

C1_Witness ==
    /\ pc = "done"
    /\ ui.button
    /\ Has("button")
    /\ text_input = TextBlank
    /\ ui.input_method = "Text"

\* the mask stage of the run has returned a mask
MaskLoaded ==
    \/ pc \in GenerationPcs \ {"load_mask"}
    \/ pc = "done" /\ (Has("cloud") \/ outcome = "ValueError")

\* C2: load_mask resolves the mask by precedence: a (readable) uploaded image gives
\* its grayscale conversion whatever the built-in shape is, even one whose file is
\* missing; with no upload a built-in shape gives the shape's image; with neither
\* there is no mask.
C2_MaskPrecedence ==
    /\ (GuardPassed /\ ui.uploaded_mask.kind = "image")
          => /\ outcome \notin {"FileNotFoundError", "UnidentifiedImageError"}
             /\ MaskLoaded =>
                   /\ mask.name = ui.uploaded_mask.img.name
                   /\ mask.mode = "L"
                   /\ mask.w = ui.uploaded_mask.img.w
                   /\ mask.h = ui.uploaded_mask.img.h
    /\ (MaskLoaded /\ ui.uploaded_mask.kind = "none" /\ ui.shape # "None")
          => mask = BuiltinImage(ui.shape)
    /\ (MaskLoaded /\ ui.uploaded_mask.kind = "none" /\ ui.shape = "None")
          => mask = NoImage

C2_Witness ==
    /\ pc = "render"
    /\ ui.uploaded_mask.kind = "image"
    /\ ui.shape = "Heart"
    /\ "Heart" \notin fs
    /\ mask.mode = "L"

\* position in the engine's mapping of the word of table row k
Pos(k) == CHOOSE i \in 1..Len(normalized_freqs) : normalized_freqs[i].word = freq_data[k].Word

\* raw count of the i-th word of the engine's mapping, 0 when the raw-count mapping
\* does not hold the word
RawOf(i) ==
    LET S == {j \in 1..Len(raw_counts) : raw_counts[j].word = normalized_freqs[i].word}
    IN  IF S = {} THEN 0 ELSE raw_counts[CHOOSE j \in S : TRUE].count

TableBuilt == pc \in {"show_table", "export_csv", "show_chart", "done"} /\ normalized_freqs # <<>>

\* C3: the frequency table is the first 10 entries of the stable descending sort of
\* the retained words by raw count: min(10, retained) rows, each a retained word
\* with its raw count; of two rows the upper one has the larger count, or the same
\* count and the earlier place in the engine's mapping; and every retained word left
\* out ranks behind every row in that same order.
C3_TopTenStableDescending ==
    TableBuilt =>
       /\ Len(freq_data) = Min(Len(normalized_freqs), TopN)
       /\ Len(freq_data) <= 10
       /\ \A k \in 1..Len(freq_data) :
             \E i \in 1..Len(normalized_freqs) :
                normalized_freqs[i].word = freq_data[k].Word
       /\ LET pos == [k \in 1..Len(freq_data) |-> Pos(k)]
              raw == [i \in 1..Len(normalized_freqs) |-> RawOf(i)]
          IN  /\ \A k \in 1..Len(freq_data) : freq_data[k].RawCount = raw[pos[k]]
              /\ \A k, l \in 1..Len(freq_data) :
                    k < l => \/ raw[pos[k]] > raw[pos[l]]
                             \/ raw[pos[k]] = raw[pos[l]] /\ pos[k] < pos[l]
              /\ \A i \in 1..Len(normalized_freqs) :
                    (\A k \in 1..Len(freq_data) : pos[k] # i)
                       => \A k \in 1..Len(freq_data) :
                             \/ raw[pos[k]] > raw[i]
                             \/ raw[pos[k]] = raw[i] /\ pos[k] < i

\* more than ten retained words, a tie among the rows, and a word that the sort moved
C3_Witness ==
    /\ pc = "done"
    /\ Len(normalized_freqs) > TopN
    /\ Len(freq_data) = TopN
    /\ \E k \in 1..Len(freq_data) : Pos(k) # k
    /\ \E k \in 1..(Len(freq_data) - 1) : freq_data[k].RawCount = freq_data[k + 1].RawCount
    /\ freq_data[1].RawCount > freq_data[TopN].RawCount

\* C4: in PDF Upload mode an upload that is no valid PDF ends the run at the
\* extraction with the extractor's exception shown; neither the success message nor
\* the extracted-text area appears, the Generate button is never reached and nothing
\* is generated.
C4_InvalidPdfHalts ==
    (Acquired /\ ui.input_method = "PDF Upload" /\ ui.uploaded_pdf.kind = "invalid")
       => /\ pc = "done"
          /\ outcome = "FileDataError"
          /\ Has("exception")
          /\ ~Has("success")
          /\ ~Has("extracted_text")
          /\ ~Has("button")
          /\ NothingGenerated

C4_Witness ==
    /\ pc = "done"
    /\ ui.input_method = "PDF Upload"
    /\ ui.uploaded_pdf.kind = "invalid"
    /\ ui.button
    /\ outcome = "FileDataError"

\* C5: a run whose button was pressed with non-blank text that has no countable
\* word, and whose mask loaded, ends normally with the condition reported, not with
\* an exception nothing handles.
C5_NoWordsIsHandled ==
    (pc = "done" /\ GuardPassed /\ process_text(text_input) = <<>>
        /\ outcome \notin {"FileNotFoundError", "UnidentifiedImageError"})
       => outcome = "ok"

\* index of the first element x on the page, 0 when it is not there
IndexOf(x) ==
    IF Has(x) THEN CHOOSE i \in 1..Len(shown) :
                      shown[i] = x /\ \A j \in 1..(i - 1) : shown[j] # x
    ELSE 0

\* C6: the PNG download, the table, the CSV download and the chart come after the
\* cloud image of the same run, rendered without failure; a run that needs a
\* built-in mask whose file is missing, or whose text has no countable word, ends
\* with the exception shown and none of the outputs.
C6_OutputsOnlyAfterRendering ==
    /\ \A o \in Outputs \ {"cloud"} :
          Has(o) => /\ Has("cloud")
                    /\ IndexOf("cloud") < IndexOf(o)
                    /\ wc # NoWc
                    /\ outcome \in {"running", "ok"}
    /\ Has("cloud") => wc # NoWc /\ wc.words_ # <<>>
    /\ (pc = "done" /\ GuardPassed /\ ui.uploaded_mask.kind = "none"
           /\ ui.shape # "None" /\ ui.shape \notin fs)
          => (outcome = "FileNotFoundError" /\ Has("exception") /\ NothingGenerated)
    /\ (pc = "done" /\ GuardPassed /\ process_text(text_input) = <<>>)
          => (outcome \notin {"running", "ok"} /\ Has("exception") /\ NothingGenerated)

C6_Witness ==
    /\ pc = "done"
    /\ GuardPassed
    /\ ui.shape = "Circle"
    /\ outcome = "FileNotFoundError"
    /\ text_input = TextCatDog

\* C7: the image offered for download has the configured width and height, whatever
\* the mask selection.
C7_ImageHasConfiguredSize ==
    Has("png_download") => (png.w = ui.width /\ png.h = ui.height)

\* C8: every row's raw count is at least 0; it is the word's count, at least 1, when
\* the raw-count mapping holds the word, and 0 when it does not, and the run goes on
\* to its end all the same.
C8_RawCountDefaultsToZero ==
    /\ TableBuilt =>
          \A k \in 1..Len(freq_data) :
             /\ freq_data[k].RawCount >= 0
             /\ \A j \in 1..Len(raw_counts) :
                   raw_counts[j].word = freq_data[k].Word
                      => (freq_data[k].RawCount = raw_counts[j].count
                          /\ freq_data[k].RawCount >= 1)
             /\ (\A j \in 1..Len(raw_counts) : raw_counts[j].word # freq_data[k].Word)
                   => freq_data[k].RawCount = 0
    /\ (pc = "done" /\ TableBuilt) => (outcome = "ok" /\ ~Has("exception"))

C8_Witness ==
    /\ pc = "done"
    /\ outcome = "ok"
    /\ \E k \in 1..Len(freq_data) : freq_data[k].RawCount = 0
    /\ \E k \in 1..Len(freq_data) : freq_data[k].RawCount >= 2

(***************************************************************************)
(* A reader of the exported file: lines end in a newline, fields are       *)
(* separated by commas, the second column is an integer and the third a    *)
(* decimal number (kept in hundredths)                                     *)
(***************************************************************************)
\* the pieces of s between the occurrences of sep
SplitAt(s, sep) ==
    LET P == {i \in 1..Len(s) : s[i] = sep}
        At(k) == CHOOSE i \in P : Cardinality({j \in P : j < i}) = k - 1
    IN  [k \in 1..(Cardinality(P) + 1) |->
            SubSeq(s, IF k = 1 THEN 1 ELSE At(k - 1) + 1,
                      IF k = Cardinality(P) + 1 THEN Len(s) ELSE At(k) - 1)]

\* the lines of a text whose every line ends in a newline
Lines(text) ==
    LET parts == SplitAt(text, "\n")
    IN  IF parts[Len(parts)] = <<>> THEN SubSeq(parts, 1, Len(parts) - 1) ELSE parts

Fields(line) == SplitAt(line, ",")

IsDigits(cs) ==
    /\ cs # <<>>
    /\ \A i \in 1..Len(cs) : \E d \in 1..10 : DigitChars[d] = cs[i]

DigitVal(c) == (CHOOSE d \in 1..10 : DigitChars[d] = c) - 1

RECURSIVE ParseInt(_)
ParseInt(cs) ==
    IF cs = <<>> THEN 0
    ELSE ParseInt(SubSeq(cs, 1, Len(cs) - 1)) * 10 + DigitVal(cs[Len(cs)])

IsDecimal(cs) ==
    LET parts == SplitAt(cs, ".")
    IN  /\ Len(parts) = 2
        /\ IsDigits(parts[1])
        /\ IsDigits(parts[2])
        /\ Len(parts[2]) <= 2

\* the value of a decimal with one or two places, in hundredths
ParseDecimal(cs) ==
    LET parts == SplitAt(cs, ".")
    IN  ParseInt(parts[1]) * 100 +
        (IF Len(parts[2]) = 1 THEN 10 * ParseInt(parts[2]) ELSE ParseInt(parts[2]))

IsDataRow(f) ==
    /\ Len(f) = 3
    /\ IsDigits(f[2])
    /\ IsDecimal(f[3])

ParseRow(f) ==
    [Word |-> f[1], RawCount |-> ParseInt(f[2]), NormPct |-> ParseDecimal(f[3])]

\* C9: the exported CSV is the header Word,Raw Count,Normalized Frequency (%) and
\* then one line per table row in the table's order (1 to 10 of them), and reading
\* it back gives exactly the table's rows: word, raw count, normalized frequency.
C9_CsvRoundTrip ==
    Has("csv_download") =>
       /\ Len(freq_data) \in 1..10
       /\ LET lines == Lines(csv)
          IN  /\ Len(lines) = Len(freq_data) + 1
              /\ Fields(lines[1]) =
                    <<<<"Word">>, <<"Raw Count">>, <<"Normalized Frequency (%)">>>>
              /\ \A k \in 1..Len(freq_data) :
                    LET f == Fields(lines[k + 1])
                    IN  IsDataRow(f) /\ ParseRow(f) = freq_data[k]

\* ten rows, among them 100.0, a percentage that is not 100.0, and a raw count of 0
C9_Witness ==
    /\ pc = "done"
    /\ Len(freq_data) = 10
    /\ Len(Lines(csv)) = 11
    /\ \E k \in 1..Len(freq_data) : freq_data[k].NormPct = 10000
    /\ \E k \in 1..Len(freq_data) : freq_data[k].NormPct = 5000
    /\ \E k \in 1..Len(freq_data) : freq_data[k].RawCount = 0

(***************************************************************************)
(* Runs of one session                                                     *)
(***************************************************************************)
\* an output without the placement the engine drew for the words
WithoutLayout(out) ==
    [out EXCEPT !.wc = [@ EXCEPT !.layout = 0], !.png = [@ EXCEPT !.layout = 0]]

SameInputsAsEarlierRun == pc = "done" /\ prev # <<>> /\ prev[1].in = ui

\* C10 as stated: a run given the text and configuration of an earlier run of the
\* session ends with identical outputs, the content of the image included.
C10_SameInputsSameOutputs ==
    SameInputsAsEarlierRun => prev[1].out = Output

\* C10 as amended: a run given the text and configuration of an earlier run of the
\* session ends with the same outcome, the same elements on the page, the same
\* retained words, image size, frequency table, CSV and chart, whatever runs came
\* in between; only the placement of the words in the image may differ.  A run that
\* does not enter the generation block shows and holds nothing of an earlier run.
C10_SameInputsSameOutputsButLayout ==
    /\ SameInputsAsEarlierRun => WithoutLayout(prev[1].out) = WithoutLayout(Output)
    /\ (pc = "done" /\ ~GuardPassed) => NothingGenerated

\* two runs of the session with the same widgets, both through the whole generation
\* block, the same table and two different layouts
C10_Witness ==
    /\ SameInputsAsEarlierRun
    /\ Has("chart")
    /\ prev[1].out.wc.layout # wc.layout
    /\ prev[1].out.freq_data = freq_data

====
